---- MODULE Spec2Model ----
(***************************************************************************)
(* ref-struct-bitfield: struct and union schemas (src/src/struct.js,       *)
(* src/unnamed/part_000), their layout computation and the bitfield        *)
(* accessors, as a state machine.                                          *)
(*                                                                         *)
(* A schema is the StructType / UnionType function object with its         *)
(* properties; an instance is its backing Buffer, a sequence of bytes.     *)
(* A JavaScript exception is the value threw = TRUE of the call record.    *)
(* A BigInt mask is kept as its binary digits (a sequence of 1s), because  *)
(* a 62-bit mask exceeds the model checker's integers.                     *)
(* JavaScript's undefined is Undef for numbers and <<>> for a mask.        *)
(* Field names are identifier-like strings, for which Object.keys keeps    *)
(* insertion order.                                                        *)
(***************************************************************************)
EXTENDS Integers, Sequences, FiniteSets, TLC

VARIABLES schema, buffer, call, declared, failures

vars == <<schema, buffer, call, declared, failures>>

----------------------------------------------------------------------------
(* Bounds of the model.                                                    *)

\* how many entries a defineProperties mapping holds at most
MaxProps == 2
\* how many declaring calls of one history throw at most
MaxFailures == 1
\* how many fields the struct of the accessor specification declares at most
MaxAccFields == 2

----------------------------------------------------------------------------
(* The type provider ("ref"): type descriptors and platform constants.     *)

PointerSize == 8
PointerAlignment == 8

Undef == -1

\* twosComplement: whether the provider reads the type's bytes as a two's
\* complement number (int8, int16, ...) or as an unsigned one
Prim(name, size, alignment, twosComplement) ==
    [name |-> name, size |-> size, alignment |-> alignment,
     indirection |-> 1, twosComplement |-> twosComplement]

char == Prim("char", 1, 1, TRUE)
uchar == Prim("uchar", 1, 1, FALSE)
short == Prim("short", 2, 2, TRUE)
ushort == Prim("ushort", 2, 2, FALSE)
int == Prim("int", 4, 4, TRUE)
uint == Prim("uint", 4, 4, FALSE)
int64 == Prim("int64", 8, 8, TRUE)
uint64 == Prim("uint64", 8, 8, FALSE)
\* ref.types.void: size 0, not a pointer
void == Prim("void", 0, 1, FALSE)
\* ref.refType(char): a pointer
charPtr ==
    [name |-> "char*", size |-> PointerSize, alignment |-> PointerAlignment,
     indirection |-> 2, twosComplement |-> FALSE]
\* opaque types whose size is no multiple of their alignment
opaque7 == Prim("opaque7", 7, 1, FALSE)
opaque3 == Prim("opaque3", 3, 4, FALSE)
opaque11 == Prim("opaque11", 11, 8, FALSE)
\* a value that is no type object: it has neither size nor indirection
notAType == [name |-> "bogus"]
\* the null of struct.lastBitfieldType
Null == [name |-> "null"]

\* bitfield.js: the bitfield type over `type`
Bitfield(type, bits) ==
    [bits |-> IF bits = 0 THEN 1 ELSE bits, type |-> type, size |-> type.size,
     alignment |-> type.alignment, indirection |-> 1]

\* a ref-array type of `n` elements of `type`
ArrayType(type, n) ==
    [fixedLength |-> n, type |-> type, size |-> n * type.size,
     alignment |-> type.alignment, indirection |-> 1]

\* a ref-array type without a fixed length: fixedLength is 0 and the value
\* is handled through a pointer
OpenArrayType(type) ==
    [fixedLength |-> 0, type |-> type, size |-> PointerSize,
     alignment |-> PointerAlignment, indirection |-> 1]

\* JavaScript: `if (type.bits)`
HasBits(type) == "bits" \in DOMAIN type /\ type.bits # 0
\* JavaScript: `null != type.fixedLength`
HasFixedLength(type) == "fixedLength" \in DOMAIN type

----------------------------------------------------------------------------
(* StructType: the schema object and its layout (struct.js).               *)

\* the field object `{type}` of internalDefineProperty
NewField(name, type) ==
    [name |-> name, type |-> type, offset |-> Undef, bitStart |-> Undef,
     bits |-> Undef, mask |-> <<>>]

\* Struct(): the StructType before its field list is read
NewStructType(packed) ==
    [kind |-> "struct", fields |-> <<>>, size |-> 0, alignment |-> 0,
     currBits |-> 0, lastBitfieldType |-> Null, lastBitfieldOffset |-> Undef,
     indirection |-> 1, isPacked |-> packed, instanceCreated |-> FALSE]

FieldNames(s) == {s.fields[i].name : i \in 1..Len(s.fields)}
FieldIndex(s, name) == CHOOSE i \in 1..Len(s.fields) : s.fields[i].name = name

\* this.fields[name] = field: a known key keeps its place, a new one goes last
SetField(fields, field) ==
    IF \E i \in 1..Len(fields) : fields[i].name = field.name
    THEN [i \in 1..Len(fields) |->
             IF fields[i].name = field.name THEN field ELSE fields[i]]
    ELSE Append(fields, field)

\* mutant: the assert on _instanceCreated is missing
StructTypeAccepted_NoFreeze(s, type) ==
    /\ "size" \in DOMAIN type /\ "indirection" \in DOMAIN type
    /\ (type.indirection > 1 \/ type.size > 0)

\* the asserts of the struct's internalDefineProperty
StructTypeAccepted(s, type) ==
    /\ ~s.instanceCreated
    /\ "size" \in DOMAIN type /\ "indirection" \in DOMAIN type
    /\ (type.indirection > 1 \/ type.size > 0)

\* internalDefineProperty: [s |-> the schema after the call, threw |-> ...]
internalDefineProperty(s, name, type) ==
    IF StructTypeAccepted(s, type)
    THEN [s |-> [s EXCEPT !.fields = SetField(s.fields, NewField(name, type))],
          threw |-> FALSE]
    ELSE [s |-> s, threw |-> TRUE]

clearBitfieldSettings(struct) ==
    [struct EXCEPT !.currBits = 0, !.lastBitfieldType = Null]

\* the alignment a field asks for in recalc's first loop
FieldAlignment(type) ==
    IF type.indirection > 1 THEN PointerAlignment
    ELSE IF type.alignment = 0 THEN PointerAlignment ELSE type.alignment

Min(a, b) == IF a < b THEN a ELSE b
Max(a, b) == IF a > b THEN a ELSE b

\* mutant: the packed rule (the least alignment) is applied to every struct
RECURSIVE AlignmentPass_Min(_, _)
AlignmentPass_Min(struct, i) ==
    IF i > Len(struct.fields) THEN struct
    ELSE LET alignment == FieldAlignment(struct.fields[i].type)
             next == Min(IF struct.alignment = 0 THEN alignment
                         ELSE struct.alignment, alignment)
         IN AlignmentPass_Min([struct EXCEPT !.alignment = next], i + 1)

\* recalc's first loop, over the fields from i on
RECURSIVE AlignmentPass(_, _)
AlignmentPass(struct, i) ==
    IF i > Len(struct.fields) THEN struct
    ELSE LET alignment == FieldAlignment(struct.fields[i].type)
             next == IF struct.isPacked
                     THEN Min(IF struct.alignment = 0 THEN alignment
                              ELSE struct.alignment, alignment)
                     ELSE Max(struct.alignment, alignment)
         IN AlignmentPass([struct EXCEPT !.alignment = next], i + 1)

\* addType: [s |-> the struct with its size advanced, offset |-> the offset]
addType(struct, type) ==
    LET align == IF type.indirection = 1 THEN type.alignment ELSE PointerAlignment
        padding == IF struct.isPacked THEN 0
                   ELSE (align - (struct.size % align)) % align
        size == IF type.indirection = 1 THEN type.size ELSE PointerSize
        offset == struct.size + padding
    IN [s |-> [struct EXCEPT !.size = offset + size], offset |-> offset]

\* addType called n more times
RECURSIVE addTypeTimes(_, _, _)
addTypeTimes(struct, type, n) ==
    IF n <= 0 THEN struct ELSE addTypeTimes(addType(struct, type).s, type, n - 1)

\* the mask loop: `bits` binary 1s
RECURSIVE MaskOf(_)
MaskOf(bits) == IF bits <= 0 THEN <<>> ELSE <<1>> \o MaskOf(bits - 1)

\* the array branch of recalc's second loop, for field i
PlaceArray(struct, i) ==
    LET type == struct.fields[i].type
        first == addType(struct, type.type)
        rest == addTypeTimes(first.s, type.type, type.fixedLength - 1)
    IN [rest EXCEPT !.fields[i].offset = first.offset]

\* mutant: bitfields share a unit only if their underlying types are the same
typeDifferent_ByName(last, type) ==
    IF "size" \notin DOMAIN last THEN TRUE
    ELSE last.type.name # type.type.name

\* mutant: only the first bitfield after a plain field starts a new unit
typeDifferent_NullOnly(last, type) == "size" \notin DOMAIN last

\* the type differs from the last bitfield's: null?.size is undefined
typeDifferent(last, type) ==
    IF "size" \notin DOMAIN last THEN TRUE
    ELSE last.size # type.size \/ last.alignment # type.alignment

\* the bits left in the unit cannot hold the bitfield
bitsInsufficient(currBits, type) == currBits + type.bits > 8 * type.size

\* the bitfield branch of recalc's second loop, for field i (bits fit)
PlaceBitfield(struct, i) ==
    LET type == struct.fields[i].type
        different == typeDifferent(struct.lastBitfieldType, type)
        firstFieldInGroup ==
            different \/ bitsInsufficient(struct.currBits, type)
        currBits == IF firstFieldInGroup THEN 0 ELSE struct.currBits
        newCurrBits == IF firstFieldInGroup THEN type.bits
                       ELSE struct.currBits + type.bits
        padding == IF struct.isPacked THEN 0
                   ELSE (type.alignment - (struct.size % type.alignment))
                            % type.alignment
        size1 == IF different THEN struct.size + padding ELSE struct.size
        offset == IF firstFieldInGroup THEN size1 ELSE struct.lastBitfieldOffset
        size2 == IF firstFieldInGroup THEN size1 + type.size ELSE size1
    IN [struct EXCEPT
           !.size = size2,
           !.lastBitfieldOffset = IF firstFieldInGroup THEN offset ELSE @,
           !.fields[i].offset = offset,
           !.fields[i].bitStart = currBits,
           !.fields[i].bits = type.bits,
           !.fields[i].mask = MaskOf(type.bits),
           !.lastBitfieldType = type,
           !.currBits = newCurrBits]

\* the plain branch of recalc's second loop, for field i
PlacePlain(struct, i) ==
    LET r == addType(struct, struct.fields[i].type)
    IN [r.s EXCEPT !.fields[i].offset = r.offset]

\* recalc's second loop, over the fields from i on; it stops where the
\* assert on the bit width throws
RECURSIVE OffsetPass(_, _)
OffsetPass(struct, i) ==
    IF i > Len(struct.fields) THEN [s |-> struct, threw |-> FALSE]
    ELSE LET type == struct.fields[i].type
             s1 == IF HasBits(type) THEN struct ELSE clearBitfieldSettings(struct)
         IN IF HasFixedLength(type) THEN OffsetPass(PlaceArray(s1, i), i + 1)
            ELSE IF HasBits(type)
                 THEN IF type.bits <= type.size * 8
                      THEN OffsetPass(PlaceBitfield(s1, i), i + 1)
                      ELSE [s |-> s1, threw |-> TRUE]
                 ELSE OffsetPass(PlacePlain(s1, i), i + 1)

\* mutant: no trailing padding
addFinalPadding_None(struct) == struct

\* size % 0 is NaN in JavaScript, and NaN > 0 is false
addFinalPadding(struct) ==
    LET left == IF struct.alignment = 0 THEN 0 ELSE struct.size % struct.alignment
    IN IF left > 0 THEN [struct EXCEPT !.size = @ + struct.alignment - left]
       ELSE struct

\* mutant: recalc does not clear the bitfield settings of the last layout
ResetLayout_KeepBits(struct) == [struct EXCEPT !.size = 0, !.alignment = 0]

\* the reset at the head of recalc
ResetLayout(struct) ==
    clearBitfieldSettings([struct EXCEPT !.size = 0, !.alignment = 0])

\* recalc(struct): [s |-> the struct after the call, threw |-> ...]
recalc(struct) ==
    LET placed == OffsetPass(AlignmentPass(ResetLayout(struct), 1), 1)
    IN IF placed.threw THEN placed
       ELSE [s |-> addFinalPadding(placed.s), threw |-> FALSE]

\* internalDefineProperty for each entry of obj from i on, until one throws
RECURSIVE DefineEntries(_, _, _)
DefineEntries(s, obj, i) ==
    IF i > Len(obj) THEN [s |-> s, threw |-> FALSE]
    ELSE LET r == internalDefineProperty(s, obj[i][1], obj[i][2])
         IN IF r.threw THEN r ELSE DefineEntries(r.s, obj, i + 1)

\* defineProperty(name, type) as a function of the schema
defineProperty(s, name, type) ==
    LET r == internalDefineProperty(s, name, type)
    IN IF r.threw THEN r ELSE recalc(r.s)

\* defineProperties(obj) as a function of the schema
defineProperties(s, obj) ==
    LET r == DefineEntries(s, obj, 1)
    IN IF r.threw THEN r ELSE recalc(r.s)

\* Buffer.alloc(n): n zero bytes
RECURSIVE Zeros(_)
Zeros(n) == IF n <= 0 THEN <<>> ELSE <<0>> \o Zeros(n - 1)

\* the argument of a constructor call made without a Buffer
NoBuffer == <<-1>>

\* new StructType(arg): [s |-> the schema, store |-> the instance's
\* buffer, threw |-> ...]; a passed-in Buffer must hold the struct
StructTypeNew(s, arg) ==
    IF arg # NoBuffer
    THEN IF Len(arg) >= s.size
         THEN [s |-> [s EXCEPT !.instanceCreated = TRUE], store |-> arg,
               threw |-> FALSE]
         ELSE [s |-> s, store |-> <<>>, threw |-> TRUE]
    ELSE [s |-> [s EXCEPT !.instanceCreated = TRUE], store |-> Zeros(s.size),
          threw |-> FALSE]

\* Struct(arg, opt): the fields of arg defined one by one, then recalc
Struct(arg, packed) ==
    LET r == DefineEntries(NewStructType(packed), arg, 1)
    IN IF r.threw THEN r ELSE recalc(r.s)

----------------------------------------------------------------------------
(* UnionType: the schema object and its layout (union.js).                 *)

\* Union(): the UnionType before its field list is read
NewUnionType(packed) ==
    [kind |-> "union", fields |-> <<>>, size |-> 0, alignment |-> 0,
     indirection |-> 1, isPacked |-> packed, instanceCreated |-> FALSE]

\* the field object `{type: type}` of the union's internalDefineProperty
NewUnionField(name, type) == [name |-> name, type |-> type]

\* the asserts of the union's internalDefineProperty
UnionTypeAccepted(u, type) ==
    /\ ~u.instanceCreated
    /\ "size" \in DOMAIN type /\ "indirection" \in DOMAIN type

unionInternalDefineProperty(u, name, type) ==
    IF UnionTypeAccepted(u, type)
    THEN [s |-> [u EXCEPT !.fields = SetField(u.fields, NewUnionField(name, type))],
          threw |-> FALSE]
    ELSE [s |-> u, threw |-> TRUE]

\* the loop of the union's recalc, over the fields from i on
RECURSIVE UnionPass(_, _)
UnionPass(union, i) ==
    IF i > Len(union.fields) THEN union
    ELSE LET type == union.fields[i].type
             size == IF type.indirection = 1 THEN type.size ELSE PointerSize
             alignment == FieldAlignment(type)
         IN UnionPass([union EXCEPT !.alignment = Max(@, alignment),
                                    !.size = Max(@, size)], i + 1)

\* mutant: no trailing padding
unionFinalPadding_None(union) == union

\* the final padding of the union's recalc
unionFinalPadding(union) ==
    LET left == IF union.alignment = 0 THEN 0 ELSE union.size % union.alignment
    IN IF left > 0 THEN [union EXCEPT !.size = @ + union.alignment - left]
       ELSE union

\* the union's recalc(union)
unionRecalc(union) ==
    unionFinalPadding(UnionPass([union EXCEPT !.size = 0, !.alignment = 0], 1))

RECURSIVE UnionDefineEntries(_, _, _)
UnionDefineEntries(u, obj, i) ==
    IF i > Len(obj) THEN [s |-> u, threw |-> FALSE]
    ELSE LET r == unionInternalDefineProperty(u, obj[i][1], obj[i][2])
         IN IF r.threw THEN r ELSE UnionDefineEntries(r.s, obj, i + 1)

unionDefineProperty(u, name, type) ==
    LET r == unionInternalDefineProperty(u, name, type)
    IN IF r.threw THEN r ELSE [s |-> unionRecalc(r.s), threw |-> FALSE]

unionDefineProperties(u, obj) ==
    LET r == UnionDefineEntries(u, obj, 1)
    IN IF r.threw THEN r ELSE [s |-> unionRecalc(r.s), threw |-> FALSE]

\* Union(arg, opt)
Union(arg, packed) ==
    LET r == UnionDefineEntries(NewUnionType(packed), arg, 1)
    IN IF r.threw THEN r ELSE [s |-> unionRecalc(r.s), threw |-> FALSE]

\* new UnionType(arg); new Buffer(n) is zero-filled
UnionTypeNew(u, arg) ==
    IF arg # NoBuffer
    THEN IF Len(arg) >= u.size
         THEN [s |-> [u EXCEPT !.instanceCreated = TRUE], store |-> arg,
               threw |-> FALSE]
         ELSE [s |-> u, store |-> <<>>, threw |-> TRUE]
    ELSE [s |-> [u EXCEPT !.instanceCreated = TRUE], store |-> Zeros(u.size),
          threw |-> FALSE]

\* the byte offset at which the union's accessors reach a member
unionAccessOffset(field) == 0

----------------------------------------------------------------------------
(* The schema life cycle: declarations, redefinitions, instances.          *)

\* Field names are interchangeable keys: a name that is new to the schema is
\* always the first unused one of the schema's name order.
StructNameOrder == <<"a", "b">>
UnionNameOrder == <<"a", "b", "c">>
NameOrder(s) == IF s.kind = "struct" THEN StructNameOrder ELSE UnionNameOrder
Names == {UnionNameOrder[i] : i \in 1..Len(UnionNameOrder)}

\* the names a declaring call may use on a schema that knows `known`
Usable(known, order) ==
    known \cup (IF Cardinality(known) < Len(order)
                THEN {order[Cardinality(known) + 1]} ELSE {})

\* the entries of obj from i on use usable names, one after the other
RECURSIVE UsableMapping(_, _, _, _)
UsableMapping(known, order, obj, i) ==
    IF i > Len(obj) THEN TRUE
    ELSE IF obj[i][1] \in Usable(known, order)
         THEN UsableMapping(known \cup {obj[i][1]}, order, obj, i + 1)
         ELSE FALSE

\* the types offered to a struct's defineProperty
StructInputs ==
    {char, opaque11, charPtr, Bitfield(char, 3), Bitfield(char, 7),
     Bitfield(short, 3), Bitfield(char, 9), void, notAType}

\* the types offered to a union's defineProperty
UnionInputs == {char, opaque7, opaque3, opaque11, charPtr, notAType}

\* the types offered in a struct's and a union's defineProperties mapping
StructMappingInputs == {char, Bitfield(char, 3), Bitfield(char, 9), notAType}
UnionMappingInputs == {opaque3, notAType}

\* the mappings of at most MaxProps entries over distinct names
Mappings(types) ==
    {obj \in UNION {[1..n -> Names \X types] : n \in 1..MaxProps} :
        \A i, j \in 1..Len(obj) : i # j => obj[i][1] # obj[j][1]}

\* the declaration history of a schema whose declaring calls all succeeded
\* (it is emptied by the first call that throws): one entry per name in
\* order of first declaration, holding the type declared last
Declare(decl, entry) ==
    IF \E i \in 1..Len(decl) : decl[i][1] = entry[1]
    THEN [i \in 1..Len(decl) |-> IF decl[i][1] = entry[1] THEN entry ELSE decl[i]]
    ELSE Append(decl, entry)

StructMappings == Mappings(StructMappingInputs)
UnionMappings == Mappings(UnionMappingInputs)

RECURSIVE DeclareAll(_, _, _)
DeclareAll(decl, obj, i) ==
    IF i > Len(obj) THEN decl ELSE DeclareAll(Declare(decl, obj[i]), obj, i + 1)

Init ==
    /\ \E packed \in BOOLEAN :
          schema \in {NewStructType(packed), NewUnionType(packed)}
    /\ buffer = <<>>
    /\ call = [op |-> "construct", threw |-> FALSE, fresh |-> FALSE]
    /\ declared = <<>>
    /\ failures = 0

StructDefineProperty(name, type) ==
    /\ schema.kind = "struct"
    /\ name \in Usable(FieldNames(schema), NameOrder(schema))
    /\ LET r == defineProperty(schema, name, type)
       IN /\ schema' = r.s
          /\ call' = [op |-> "defineProperty", threw |-> r.threw,
                    fresh |-> Len(r.s.fields) > Len(schema.fields)]
          /\ declared' = IF r.threw \/ failures > 0 THEN <<>>
                         ELSE Declare(declared, <<name, type>>)
          /\ r.threw => failures < MaxFailures
          /\ failures' = IF r.threw THEN failures + 1 ELSE failures
    /\ UNCHANGED buffer

StructDefineProperties(obj) ==
    /\ schema.kind = "struct"
    /\ UsableMapping(FieldNames(schema), NameOrder(schema), obj, 1)
    /\ LET r == defineProperties(schema, obj)
       IN /\ schema' = r.s
          /\ call' = [op |-> "defineProperties", threw |-> r.threw,
                    fresh |-> Len(r.s.fields) > Len(schema.fields)]
          /\ declared' = IF r.threw \/ failures > 0 THEN <<>>
                         ELSE DeclareAll(declared, obj, 1)
          /\ r.threw => failures < MaxFailures
          /\ failures' = IF r.threw THEN failures + 1 ELSE failures
    /\ UNCHANGED buffer

StructNewInstance(arg) ==
    /\ schema.kind = "struct"
    /\ LET r == StructTypeNew(schema, arg)
       IN /\ schema' = r.s
          /\ buffer' = IF r.threw THEN buffer ELSE r.store
          /\ call' = [op |-> "new", threw |-> r.threw, fresh |-> FALSE]
    /\ UNCHANGED <<declared, failures>>

UnionDefineProperty(name, type) ==
    /\ schema.kind = "union"
    /\ name \in Usable(FieldNames(schema), NameOrder(schema))
    /\ LET r == unionDefineProperty(schema, name, type)
       IN /\ schema' = r.s
          /\ call' = [op |-> "defineProperty", threw |-> r.threw,
                    fresh |-> Len(r.s.fields) > Len(schema.fields)]
          /\ declared' = IF r.threw \/ failures > 0 THEN <<>>
                         ELSE Declare(declared, <<name, type>>)
          /\ r.threw => failures < MaxFailures
          /\ failures' = IF r.threw THEN failures + 1 ELSE failures
    /\ UNCHANGED buffer

UnionDefineProperties(obj) ==
    /\ schema.kind = "union"
    /\ UsableMapping(FieldNames(schema), NameOrder(schema), obj, 1)
    /\ LET r == unionDefineProperties(schema, obj)
       IN /\ schema' = r.s
          /\ call' = [op |-> "defineProperties", threw |-> r.threw,
                    fresh |-> Len(r.s.fields) > Len(schema.fields)]
          /\ declared' = IF r.threw \/ failures > 0 THEN <<>>
                         ELSE DeclareAll(declared, obj, 1)
          /\ r.threw => failures < MaxFailures
          /\ failures' = IF r.threw THEN failures + 1 ELSE failures
    /\ UNCHANGED buffer

UnionNewInstance(arg) ==
    /\ schema.kind = "union"
    /\ LET r == UnionTypeNew(schema, arg)
       IN /\ schema' = r.s
          /\ buffer' = IF r.threw THEN buffer ELSE r.store
          /\ call' = [op |-> "new", threw |-> r.threw, fresh |-> FALSE]
    /\ UNCHANGED <<declared, failures>>

\* the arguments of a constructor call: none, or a Buffer of zero bytes
\* that holds the schema, or one that is a byte short
NewArgs == {NoBuffer, Zeros(schema.size)} \cup
           (IF schema.size > 0 THEN {Zeros(schema.size - 1)} ELSE {})

Next ==
    \/ \E name \in Names, type \in StructInputs : StructDefineProperty(name, type)
    \/ \E obj \in StructMappings : StructDefineProperties(obj)
    \/ \E arg \in NewArgs : StructNewInstance(arg)
    \/ \E name \in Names, type \in UnionInputs : UnionDefineProperty(name, type)
    \/ \E obj \in UnionMappings : UnionDefineProperties(obj)
    \/ \E arg \in NewArgs : UnionNewInstance(arg)

Spec == Init /\ [][Next]_vars

----------------------------------------------------------------------------
(* Properties of the schema life cycle.                                    *)

DeclaringOps == {"defineProperty", "defineProperties"}

\* what a schema's users read of its layout
SchemaLayout(s) == [fields |-> s.fields, size |-> s.size, alignment |-> s.alignment]

\* the last call was a construction or a declaring call, and it returned
Declared == call.op \in DeclaringOps \cup {"construct"} /\ ~call.threw

\* C1. Freeze enforcement: once an instance of the schema has been
\* constructed, every defineProperty / defineProperties call on it throws
\* and leaves the field table, every field's offset, bitStart and mask, the
\* size and the alignment as they were.
FreezeEnforcement ==
    [][(schema.instanceCreated /\ call'.op \in DeclaringOps)
          => (call'.threw /\ SchemaLayout(schema') = SchemaLayout(schema))]_vars

\* C1 happens: a declaring call has thrown on a frozen schema with fields.
FreezeWitness ==
    /\ schema.instanceCreated /\ schema.fields # <<>>
    /\ call.op \in DeclaringOps /\ call.threw

\* C4. Atomic failure: a declaring call on an open struct schema that throws
\* leaves the field table, the offsets, the size and the alignment as they
\* were before the call.
AtomicFailure ==
    [][(schema.kind = "struct" /\ ~schema.instanceCreated
        /\ call'.op \in DeclaringOps /\ call'.threw)
          => SchemaLayout(schema') = SchemaLayout(schema)]_vars

\* C6. Alignment divisibility: after a construction and after every
\* declaring call that returns, the size is a multiple of the alignment
\* when the alignment is positive, and an empty field list has size 0 and
\* alignment 0.
AlignmentDivisibility ==
    Declared =>
        /\ schema.alignment > 0 => schema.size % schema.alignment = 0
        /\ schema.fields = <<>> => schema.size = 0 /\ schema.alignment = 0

\* C6 happens: a declaring call has returned on a struct whose last field,
\* a plain one, ends before the padded size.
AlignmentDivisibilityWitness ==
    /\ Declared /\ schema.kind = "struct" /\ schema.fields # <<>>
    /\ LET f == schema.fields[Len(schema.fields)]
       IN /\ ~HasBits(f.type)
          /\ f.offset + f.type.size < schema.size

\* C7 as stated. Monotonic size: along successful defineProperty calls on
\* an open struct schema the size never decreases.
MonotonicSize ==
    [][(schema.kind = "struct" /\ failures = 0
        /\ call'.op = "defineProperty" /\ ~call'.threw)
          => schema'.size >= schema.size]_vars

\* C7 as amended. Along successful defineProperty calls on an open struct
\* schema that is not packed, a call that declares a new name never
\* decreases the size.
MonotonicSizeNewField ==
    [][(schema.kind = "struct" /\ ~schema.isPacked /\ failures = 0
        /\ call'.op = "defineProperty" /\ ~call'.threw /\ call'.fresh)
          => schema'.size >= schema.size]_vars

\* C7 happens: a successful defineProperty has added a second field to a
\* struct that is not packed.
MonotonicSizeWitness ==
    /\ schema.kind = "struct" /\ ~schema.isPacked /\ failures = 0
    /\ call.op = "defineProperty" /\ ~call.threw /\ call.fresh
    /\ Len(schema.fields) = 2

\* the size and alignment a union member asks for
MemberSize(type) == IF type.indirection > 1 THEN PointerSize ELSE type.size
MemberAlignment(type) ==
    IF type.indirection > 1 THEN PointerAlignment ELSE type.alignment

\* the greatest element of a non-empty set of numbers
Greatest(S) == CHOOSE m \in S : \A n \in S : n <= m

\* C8. Union layout: after a construction or a declaring call that returns
\* on a union with members, every member is reached at offset 0, the
\* alignment is the greatest member alignment and the size is the least
\* multiple of it that holds the greatest member size.
UnionLayout ==
    (Declared /\ schema.kind = "union" /\ schema.fields # <<>>) =>
        LET members == {schema.fields[i] : i \in 1..Len(schema.fields)}
            align == Greatest({MemberAlignment(f.type) : f \in members})
            most == Greatest({MemberSize(f.type) : f \in members})
        IN /\ \A f \in members : unionAccessOffset(f) = 0
           /\ schema.alignment = align
           /\ schema.size % align = 0
           /\ schema.size >= most
           /\ schema.size - align < most

\* C8 happens: the union of members of sizes 7, 3, 11 and alignments 1, 4, 8
\* has size 16 and alignment 8.
UnionLayoutWitness ==
    /\ Declared /\ schema.kind = "union"
    /\ {schema.fields[i].type : i \in 1..Len(schema.fields)}
           = {opaque7, opaque3, opaque11}
    /\ schema.size = 16 /\ schema.alignment = 8

\* C9. Redefinition is a full relayout: while every declaring call has
\* returned, the struct's size, alignment and fields (offset, bitStart,
\* bits, mask) are those of a new struct built from the declaration
\* history: the names in order of first declaration, each with the type
\* declared last.
FullRelayout ==
    (schema.kind = "struct" /\ failures = 0) =>
        SchemaLayout(schema) = SchemaLayout(Struct(declared, schema.isPacked).s)

\* C9 happens: a successful defineProperty has redefined a field of a
\* struct whose second field continues the first field's bitfield group.
FullRelayoutWitness ==
    /\ schema.kind = "struct" /\ failures = 0
    /\ call.op = "defineProperty" /\ ~call.threw /\ ~call.fresh
    /\ Len(schema.fields) = 2
    /\ schema.fields[2].bitStart > 0

----------------------------------------------------------------------------
(* The bitfield accessors (struct.js) over the provider's scalar access.   *)

RECURSIVE Pow2(_)
Pow2(n) == IF n <= 0 THEN 1 ELSE 2 * Pow2(n - 1)

\* BigInt arithmetic: & and | on two's complement numbers of any length,
\* << and >> (an arithmetic shift), BigInt.asIntN
RECURSIVE BitAnd(_, _)
BitAnd(x, y) ==
    IF x = 0 \/ y = 0 THEN 0
    ELSE IF x = -1 THEN y
    ELSE IF y = -1 THEN x
    ELSE (x % 2) * (y % 2) + 2 * BitAnd(x \div 2, y \div 2)

RECURSIVE BitOr(_, _)
BitOr(x, y) ==
    IF x = 0 THEN y
    ELSE IF y = 0 THEN x
    ELSE IF x = -1 \/ y = -1 THEN -1
    ELSE (IF x % 2 = 1 \/ y % 2 = 1 THEN 1 ELSE 0) + 2 * BitOr(x \div 2, y \div 2)

ShiftLeft(x, n) == x * Pow2(n)
ShiftRight(x, n) == x \div Pow2(n)
asIntN(n, x) ==
    LET m == x % Pow2(n) IN IF m >= Pow2(n - 1) THEN m - Pow2(n) ELSE m

\* the number a mask's binary digits stand for
RECURSIVE MaskValue(_)
MaskValue(mask) ==
    IF mask = <<>> THEN 0 ELSE mask[1] + 2 * MaskValue(Tail(mask))

\* the n bytes at offset, least significant first, as an unsigned number
RECURSIVE ReadLE(_, _, _)
ReadLE(buf, offset, n) ==
    IF n <= 0 THEN 0 ELSE buf[offset + 1] + 256 * ReadLE(buf, offset + 1, n - 1)

\* buf with the n low bytes of the unsigned number u written at offset
RECURSIVE WriteLE(_, _, _, _)
WriteLE(buf, offset, n, u) ==
    IF n <= 0 THEN buf
    ELSE WriteLE([buf EXCEPT ![offset + 1] = u % 256], offset + 1, n - 1, u \div 256)

\* ref.get(buffer, offset, type) of the provider, for an integer type
refGet(buf, offset, type) ==
    LET u == ReadLE(buf, offset, type.size)
    IN IF type.twosComplement /\ u >= Pow2(8 * type.size - 1)
       THEN u - Pow2(8 * type.size) ELSE u

\* ref.set(buffer, offset, value, type) of the provider, for an integer type
refSet(buf, offset, value, type) ==
    WriteLE(buf, offset, type.size, value % Pow2(8 * type.size))

\* Buffer.alloc(8) with -1 written as a 64-bit number
AllOnes == <<255, 255, 255, 255, 255, 255, 255, 255>>

\* mutant: no type is taken to be signed
isSignedInteger_Never(type) == FALSE

\* isSignedInteger: reading the bytes of -1 through the type gives -1
isSignedInteger(type) == refGet(AllOnes, 0, type) = -1

\* mutant: the value is not masked before it is shifted into place
FieldBits_Unmasked(value, field) == ShiftLeft(value, field.bitStart)

\* (BigInt(value) & field.mask) << field.bitStart
FieldBits(value, field) ==
    ShiftLeft(BitAnd(value, MaskValue(field.mask)), field.bitStart)

\* the bitfield getter, on an instance whose buffer starts at base
bitfieldGet(buf, base, field) ==
    LET type == field.type
        unit == refGet(buf, base + field.offset, type.type)
        value == BitAnd(ShiftRight(unit, field.bitStart), MaskValue(field.mask))
    IN IF isSignedInteger(type.type) THEN asIntN(field.bits, value) ELSE value

\* the bitfield setter: the buffer after the write
bitfieldSet(buf, base, field, value) ==
    LET type == field.type
        unit == refGet(buf, base + field.offset, type.type)
        val == BitOr(unit, FieldBits(value, field))
        out == IF isSignedInteger(type.type) THEN asIntN(8 * type.type.size, val)
               ELSE val
    IN refSet(buf, base + field.offset, out, type.type)

\* the struct's get(buffer, offset): an instance over the same bytes, from
\* offset on: [s |-> the schema, base |-> where the instance starts, threw]
structGet(s, buf, offset) ==
    LET r == StructTypeNew(s, SubSeq(buf, offset + 1, Len(buf)))
    IN [s |-> r.s, base |-> offset, threw |-> r.threw]

----------------------------------------------------------------------------
(* The accessors at work: the README's union U of two structs, s and us,   *)
(* with the same bitfields over a type and over its counterpart of the     *)
(* other signedness; u.s and u.us are struct instances over u's buffer.    *)

\* the bitfield types the structs declare
AccessTypes ==
    {Bitfield(char, 7), Bitfield(uchar, 1), Bitfield(ushort, 7)}

\* the field lists of struct s
AccessFields ==
    {decl \in UNION {[1..n -> Names \X AccessTypes] : n \in 1..MaxAccFields} :
        \A i \in 1..Len(decl) : decl[i][1] = UnionNameOrder[i]}

\* the type of the other signedness
Twin(type) ==
    CASE type = char -> uchar [] type = uchar -> char
      [] type = short -> ushort [] type = ushort -> short

TwinFields(decl) ==
    [i \in 1..Len(decl) |-> <<decl[i][1], Bitfield(Twin(decl[i][2].type), decl[i][2].bits)>>]

\* the values written, inside and outside the fields' ranges
AccessValues == {-1, 0, 1, 255}

\* the bytes a passed-in Buffer is filled with
FillBytes == {165}

RECURSIVE Fill(_, _)
Fill(n, b) == IF n <= 0 THEN <<>> ELSE <<b>> \o Fill(n - 1, b)

Members == {"s", "us"}
Member(name) == schema.fields[FieldIndex(schema, name)]

InitAccess ==
    /\ \E decl \in AccessFields :
          schema = Union(<< <<"s", Struct(decl, FALSE).s>>,
                            <<"us", Struct(TwinFields(decl), FALSE).s>> >>, FALSE).s
    /\ buffer = <<>>
    /\ call = [op |-> "construct", threw |-> FALSE, fresh |-> FALSE]
    /\ declared = <<>>
    /\ failures = 0

\* u = new U(arg)
AccessNew(arg) ==
    /\ LET r == UnionTypeNew(schema, arg)
       IN /\ ~r.threw
          /\ schema' = r.s
          /\ buffer' = r.store
          /\ call' = [op |-> "new", threw |-> FALSE, fresh |-> FALSE]
    /\ UNCHANGED <<declared, failures>>

\* u[member][name] = value
AccessSet(member, name, value) ==
    /\ schema.instanceCreated
    /\ name \in FieldNames(Member(member).type)
    /\ LET m == Member(member)
           view == structGet(m.type, buffer, unionAccessOffset(m))
           field == view.s.fields[FieldIndex(view.s, name)]
       IN /\ ~view.threw
          /\ schema' = [schema EXCEPT !.fields[FieldIndex(schema, member)].type = view.s]
          /\ buffer' = bitfieldSet(buffer, view.base, field, value)
          /\ call' = [op |-> "set", threw |-> FALSE, fresh |-> FALSE,
                      member |-> member, name |-> name, value |-> value]
    /\ UNCHANGED <<declared, failures>>

\* u[member][name]
AccessGet(member, name) ==
    /\ schema.instanceCreated
    /\ name \in FieldNames(Member(member).type)
    /\ LET m == Member(member)
           view == structGet(m.type, buffer, unionAccessOffset(m))
           field == view.s.fields[FieldIndex(view.s, name)]
       IN /\ ~view.threw
          /\ schema' = [schema EXCEPT !.fields[FieldIndex(schema, member)].type = view.s]
          /\ call' = [op |-> "get", threw |-> FALSE, fresh |-> FALSE,
                      member |-> member, name |-> name,
                      value |-> bitfieldGet(buffer, view.base, field)]
    /\ UNCHANGED <<buffer, declared, failures>>

NextAccess ==
    \/ \E arg \in {NoBuffer} \cup {Fill(schema.size, b) : b \in FillBytes} :
          AccessNew(arg)
    \/ \E member \in Members, name \in Names, value \in AccessValues :
          AccessSet(member, name, value)
    \/ \E member \in Members, name \in Names : AccessGet(member, name)

SpecAccess == InitAccess /\ [][NextAccess]_vars

----------------------------------------------------------------------------
(* Properties of the accessors.                                            *)

\* the fields of a member's struct
FieldsOf(member) ==
    LET t == Member(member).type IN {t.fields[i] : i \in 1..Len(t.fields)}

\* the field the last set or get went to
CallField == LET t == Member(call.member).type IN t.fields[FieldIndex(t, call.name)]

\* the range of a bitfield's values: two's complement or unsigned
InRange(field, v) ==
    IF field.type.type.twosComplement
    THEN -Pow2(field.bits - 1) <= v /\ v <= Pow2(field.bits - 1) - 1
    ELSE 0 <= v /\ v <= Pow2(field.bits) - 1

\* C2. Bitfield round trip: right after a field has been set to a value of
\* its range, whatever the buffer held before, getting it gives that value.
RoundTrip ==
    (call.op = "set" /\ InRange(CallField, call.value))
        => bitfieldGet(buffer, unionAccessOffset(Member(call.member)), CallField)
               = call.value

\* C3. Sibling-bit isolation: a set of one bitfield, with any value, leaves
\* the value of every other bitfield of the same storage unit as it was.
SiblingIsolation ==
    [][call'.op = "set" =>
          \A member \in Members :
              \A B \in FieldsOf(member) :
                  LET A == CallField'
                      base == unionAccessOffset(Member(member))
                  IN (B.name # A.name /\ B.offset = A.offset)
                          => bitfieldGet(buffer', base, B) = bitfieldGet(buffer, base, B)]_vars

\* C3 happens: a field has been set to a value outside its range while
\* another field of its storage unit holds a value other than 0.
SiblingIsolationWitness ==
    /\ call.op = "set" /\ ~InRange(CallField, call.value)
    /\ \E B \in FieldsOf(call.member) :
          /\ B.name # call.name /\ B.offset = CallField.offset
          /\ bitfieldGet(buffer, 0, B) # 0

\* bit i of the storage unit at byte offset pos
UnitBit(buf, pos, i) == (buf[pos + 1 + (i \div 8)] \div Pow2(i % 8)) % 2

\* the number that bits [from, from + n) of the unit stand for
RECURSIVE UnitBits(_, _, _, _)
UnitBits(buf, pos, from, n) ==
    IF n <= 0 THEN 0
    ELSE UnitBit(buf, pos, from) + 2 * UnitBits(buf, pos, from + 1, n - 1)

\* the bits of a field read as a two's complement or as an unsigned number
Extracted(buf, field) ==
    LET raw == UnitBits(buf, field.offset, field.bitStart, field.bits)
    IN IF field.type.type.twosComplement /\ raw >= Pow2(field.bits - 1)
       THEN raw - Pow2(field.bits) ELSE raw

\* C10. Bitfield read: getting a bitfield through either member of the
\* union gives bits [bitStart, bitStart + bits) of its storage unit, as a
\* two's complement number for a signed type and as an unsigned number
\* otherwise, whatever the buffer holds; and a get returns that number.
MaskedExtraction ==
    schema.instanceCreated =>
        /\ \A member \in Members :
              \A f \in FieldsOf(member) :
                  bitfieldGet(buffer, unionAccessOffset(Member(member)), f)
                      = Extracted(buffer, f)
        /\ call.op = "get" => call.value = Extracted(buffer, CallField)

\* C10 happens: 0xFF has been written into the 7-bit field a of a zeroed
\* buffer through s, where a is signed; a reads -1 through s and 127
\* through us.
MaskedExtractionWitness ==
    /\ call.op = "set" /\ call.member = "s" /\ call.name = "a" /\ call.value = 255
    /\ LET a == CallField
           ua == Member("us").type.fields[1]
       IN /\ a.bits = 7 /\ a.type.type.twosComplement
          /\ buffer = bitfieldSet(Zeros(schema.size), 0, a, 255)
          /\ bitfieldGet(buffer, 0, a) = -1
          /\ bitfieldGet(buffer, 0, ua) = 127

----------------------------------------------------------------------------
(* The struct of the README, declared field by field in the README's       *)
(* order: by the constructor, by defineProperty or by defineProperties,    *)
(* with h a short or a char, redefinitions included.                       *)

\* the most entries of one defineProperties call
MaxExampleEntries == 3

\* the README's fields, with h of the given type, and the l it adds last
ExampleFields(hType) ==
    << <<"a", Bitfield(int64, 7)>>, <<"b", Bitfield(int64, 2)>>,
       <<"c", Bitfield(int64, 2)>>, <<"d", Bitfield(char, 7)>>,
       <<"e", Bitfield(char, 2)>>, <<"f", Bitfield(char, 2)>>,
       <<"g", Bitfield(int, 2)>>, <<"h", hType>>,
       <<"i", Bitfield(uint64, 2)>>, <<"j", Bitfield(int64, 62)>>,
       <<"k", Bitfield(uint64, 1)>>, <<"l", int>> >>

\* the struct of the README before l: S = struct({a: ..., k: ...})
ReadmeFields(hType) == SubSeq(ExampleFields(hType), 1, 11)

ExampleHTypes == {short, char}

InitExample ==
    /\ \E packed \in BOOLEAN :
          \/ /\ schema = NewStructType(packed)
             /\ declared = <<>>
          \/ /\ schema = Struct(ReadmeFields(short), packed).s
             /\ declared = ReadmeFields(short)
    /\ buffer = <<>>
    /\ call = [op |-> "construct", threw |-> FALSE, fresh |-> FALSE]
    /\ failures = 0

\* S.defineProperty(name, type) for field i of the README: a field
\* declared before, or the first one not declared yet
ExampleDefineProperty(i, hType) ==
    /\ i <= Len(schema.fields) + 1
    /\ LET entry == ExampleFields(hType)[i]
           r == defineProperty(schema, entry[1], entry[2])
       IN /\ schema' = r.s
          /\ call' = [op |-> "defineProperty", threw |-> r.threw,
                    fresh |-> Len(r.s.fields) > Len(schema.fields)]
          /\ declared' = IF r.threw \/ failures > 0 THEN <<>>
                         ELSE Declare(declared, entry)
          /\ r.threw => failures < MaxFailures
          /\ failures' = IF r.threw THEN failures + 1 ELSE failures
    /\ UNCHANGED buffer

\* S.defineProperties({...}) for fields i..j of the README
ExampleDefineProperties(i, j, hType) ==
    /\ i <= j /\ j - i < MaxExampleEntries
    /\ i <= Len(schema.fields) + 1
    /\ LET obj == SubSeq(ExampleFields(hType), i, j)
           r == defineProperties(schema, obj)
       IN /\ schema' = r.s
          /\ call' = [op |-> "defineProperties", threw |-> r.threw,
                    fresh |-> Len(r.s.fields) > Len(schema.fields)]
          /\ declared' = IF r.threw \/ failures > 0 THEN <<>>
                         ELSE DeclareAll(declared, obj, 1)
          /\ r.threw => failures < MaxFailures
          /\ failures' = IF r.threw THEN failures + 1 ELSE failures
    /\ UNCHANGED buffer

\* s = new S
ExampleNewInstance ==
    /\ LET r == StructTypeNew(schema, NoBuffer)
       IN /\ schema' = r.s
          /\ buffer' = r.store
          /\ call' = [op |-> "new", threw |-> r.threw, fresh |-> FALSE]
    /\ UNCHANGED <<declared, failures>>

NextExample ==
    \/ \E i \in 1..12, hType \in ExampleHTypes : ExampleDefineProperty(i, hType)
    \/ \E i \in 1..12, j \in 1..12, hType \in ExampleHTypes :
          ExampleDefineProperties(i, j, hType)
    \/ ExampleNewInstance

SpecExample == InitExample /\ [][NextExample]_vars

\* the names and types of a schema's fields, in the order of the table
Declaration(s) == [i \in 1..Len(s.fields) |-> <<s.fields[i].name, s.fields[i].type>>]

\* C5. Worked example: the non-packed struct whose fields are a..k of the
\* README, in this order and with h a char, has size 40 and alignment 8,
\* however it was declared (h may have been a short before).
WorkedExample ==
    (~schema.isPacked /\ Declaration(schema) = ReadmeFields(char))
        => (schema.size = 40 /\ schema.alignment = 8)

\* C5 happens: the struct of the README after h has become a char and
\* i, j, k have been declared once more; its layout is the README's.
WorkedExampleWitness ==
    /\ ~schema.isPacked /\ Declaration(schema) = ReadmeFields(char)
    /\ call.op = "defineProperties" /\ ~call.threw /\ ~call.fresh
    /\ [i \in 1..11 |-> schema.fields[i].offset]
           = <<0, 0, 0, 8, 9, 9, 12, 16, 24, 24, 32>>
    /\ schema.size = 40 /\ schema.alignment = 8

----------------------------------------------------------------------------
(* Properties of bitfield grouping.                                        *)

\* fields i and i + 1 of the schema are both bitfields
BitfieldPair(s, i) ==
    i + 1 <= Len(s.fields) /\ HasBits(s.fields[i].type) /\ HasBits(s.fields[i + 1].type)

\* field i + 1 opens a unit of its own behind the unit of field i
FreshUnit(s, i) ==
    LET prev == s.fields[i]
        next == s.fields[i + 1]
    IN /\ next.bitStart = 0
       /\ next.offset >= prev.offset + prev.type.size
       /\ ~s.isPacked => next.offset % next.type.alignment = 0

\* C11 as stated. Type change starts a new storage unit: a bitfield whose
\* declared underlying type is another one than the preceding bitfield's,
\* be it of the same size and alignment, gets a unit of its own.
TypeChangeNewUnit ==
    \A i \in 1..Len(schema.fields) :
        (BitfieldPair(schema, i)
            /\ schema.fields[i].type.type.name # schema.fields[i + 1].type.type.name)
                => FreshUnit(schema, i)

\* C11, amended. A bitfield whose underlying type differs in size or in
\* alignment from the preceding bitfield's gets a unit of its own: bitStart
\* 0, an offset behind the preceding unit, aligned when not packed.
SizeChangeNewUnit ==
    \A i \in 1..Len(schema.fields) :
        (BitfieldPair(schema, i)
            /\ (schema.fields[i].type.size # schema.fields[i + 1].type.size
                \/ schema.fields[i].type.alignment # schema.fields[i + 1].type.alignment))
                => FreshUnit(schema, i)

\* C11 happens: defineProperty has laid the README's struct out again;
\* d (char) after c (int64) and g (int) after f (char) open units at 8 and
\* 12, while j (int64) shares the unit of i (uint64) at 24, from bit 2 on.
SizeChangeNewUnitWitness ==
    /\ call.op = "defineProperty" /\ ~call.threw
    /\ ~schema.isPacked /\ Len(schema.fields) >= 11
    /\ Declaration(schema)[10] = ReadmeFields(char)[10]
    /\ schema.fields[4].offset = 8 /\ schema.fields[4].bitStart = 0
    /\ schema.fields[7].offset = 12 /\ schema.fields[7].bitStart = 0
    /\ schema.fields[9].offset = 24 /\ schema.fields[10].offset = 24
    /\ schema.fields[10].bitStart = 2

----------------------------------------------------------------------------
(* Structs with array fields: every field list of up to three fields over  *)
(* plain types, a bitfield and arrays, declared by defineProperty.         *)

\* the greatest fixed length of an array type
MaxArrayLen == 2

ArrayNameOrder == <<"a", "b", "c">>

\* the element types of the arrays
ArrayElements == {int64, opaque11}

ArrayInputs ==
    {char, Bitfield(char, 3)}
        \cup {ArrayType(T, n) : T \in ArrayElements, n \in 1..MaxArrayLen}
        \cup {OpenArrayType(T) : T \in ArrayElements}

InitArray ==
    /\ \E packed \in BOOLEAN : schema = NewStructType(packed)
    /\ buffer = <<>>
    /\ call = [op |-> "construct", threw |-> FALSE, fresh |-> FALSE]
    /\ declared = <<>>
    /\ failures = 0

\* S.defineProperty(name, type), the type an array or not
ArrayDefineProperty(name, type) ==
    /\ name \in Usable(FieldNames(schema), ArrayNameOrder)
    /\ LET r == defineProperty(schema, name, type)
       IN /\ schema' = r.s
          /\ call' = [op |-> "defineProperty", threw |-> r.threw,
                    fresh |-> Len(r.s.fields) > Len(schema.fields)]
          /\ declared' = IF r.threw \/ failures > 0 THEN <<>>
                         ELSE Declare(declared, <<name, type>>)
          /\ r.threw => failures < MaxFailures
          /\ failures' = IF r.threw THEN failures + 1 ELSE failures
    /\ UNCHANGED buffer

\* s = new S
ArrayNewInstance ==
    /\ LET r == StructTypeNew(schema, NoBuffer)
       IN /\ schema' = r.s
          /\ buffer' = r.store
          /\ call' = [op |-> "new", threw |-> r.threw, fresh |-> FALSE]
    /\ UNCHANGED <<declared, failures>>

NextArray ==
    \/ \E name \in Names, type \in ArrayInputs : ArrayDefineProperty(name, type)
    \/ ArrayNewInstance

SpecArray == InitArray /\ [][NextArray]_vars

\* the name of element k of the array field `name`; the first element
\* keeps the name of the field
RECURSIVE ElementName(_, _)
ElementName(name, k) == IF k <= 1 THEN name ELSE ElementName(name, k - 1) \o "_"

\* n plain fields of an array's element type, from element k on
RECURSIVE Elements(_, _, _, _)
Elements(name, type, k, n) ==
    IF k > n THEN <<>>
    ELSE << <<ElementName(name, k), type>> >> \o Elements(name, type, k + 1, n)

\* the field list with every array field replaced by its elements
RECURSIVE Flatten(_, _)
Flatten(decl, i) ==
    IF i > Len(decl) THEN <<>>
    ELSE (IF HasFixedLength(decl[i][2])
          THEN Elements(decl[i][1], decl[i][2].type, 1, decl[i][2].fixedLength)
          ELSE << decl[i] >>) \o Flatten(decl, i + 1)

\* every array of the field list has the alignment of its element type
ElementAligned(decl) ==
    \A i \in 1..Len(decl) :
        HasFixedLength(decl[i][2]) => decl[i][2].alignment = decl[i][2].type.alignment

\* the struct has the size and alignment of `flat`, and each field that
\* `flat` has too (an array by its first element) has its offset and bits
SameLayout(s, flat) ==
    /\ s.size = flat.size /\ s.alignment = flat.alignment
    /\ \A i \in 1..Len(s.fields) :
          s.fields[i].name \in FieldNames(flat) =>
              LET f == flat.fields[FieldIndex(flat, s.fields[i].name)]
              IN /\ s.fields[i].offset = f.offset
                 /\ s.fields[i].bitStart = f.bitStart

\* the arrays of the field list all have a fixed length of at least 1
FixedArrays(decl) ==
    \A i \in 1..Len(decl) :
        HasFixedLength(decl[i][2]) => decl[i][2].fixedLength >= 1

\* C12. Array flattening: a struct with array fields of n >= 0 elements,
\* each array aligned as its element type, has the size, the alignment and
\* the field offsets of the struct in which every array is replaced by n
\* plain fields of the element type.
ArrayFlattening ==
    (failures = 0 /\ ElementAligned(declared))
        => SameLayout(schema, Struct(Flatten(declared, 1), schema.isPacked).s)

\* C12 for arrays of at least one element.
ArrayFlatteningFixed ==
    (failures = 0 /\ ElementAligned(declared) /\ FixedArrays(declared))
        => SameLayout(schema, Struct(Flatten(declared, 1), schema.isPacked).s)

----------------------------------------------------------------------------
(* A struct schema C used as the type of the plain field c of a struct     *)
(* schema P. P's field table holds the StructType object C itself, not a   *)
(* copy: what is done to C is seen through P.fields.c.type, and P's layout *)
(* reads C.size and C.alignment only when P's recalc runs.                 *)

NestedPNames == <<"a", "c", "b">>
NestedCNames == <<"x", "y">>

\* the types of the other fields of P and of the fields of C
NestedInputs == {char, int64}

\* the schema C, reached through P's field c
NestedC == schema.fields[FieldIndex(schema, "c")].type

\* P with the object C in the state C2
WithC(P, C2) == [P EXCEPT !.fields[FieldIndex(P, "c")].type = C2]

\* C = struct({x: 'char'}); P = struct({c: C}) or struct({a: 'char', c: C})
InitNested ==
    /\ \E packed \in BOOLEAN, lead \in {<<>>, << <<"a", char>> >>} :
          schema = Struct(lead \o << <<"c", Struct(<< <<"x", char>> >>, FALSE).s>> >>,
                          packed).s
    /\ buffer = <<>>
    /\ call = [op |-> "construct", threw |-> FALSE, fresh |-> FALSE]
    /\ declared = <<>>
    /\ failures = 0

\* P.defineProperty(name, type); for c the type is C again
NestedDefineP(name, type) ==
    /\ name \in Usable(FieldNames(schema), NestedPNames)
    /\ LET r == defineProperty(schema, name, IF name = "c" THEN NestedC ELSE type)
       IN /\ schema' = r.s
          /\ call' = [op |-> "defineProperty", threw |-> r.threw,
                    fresh |-> Len(r.s.fields) > Len(schema.fields)]
          /\ r.threw => failures < MaxFailures
          /\ failures' = IF r.threw THEN failures + 1 ELSE failures
    /\ UNCHANGED <<buffer, declared>>

\* C.defineProperty(name, type): P is not laid out again
NestedDefineC(name, type) ==
    /\ name \in Usable(FieldNames(NestedC), NestedCNames)
    /\ LET r == defineProperty(NestedC, name, type)
       IN /\ schema' = WithC(schema, r.s)
          /\ call' = [op |-> "C.defineProperty", threw |-> r.threw,
                    fresh |-> Len(r.s.fields) > Len(NestedC.fields)]
          /\ r.threw => failures < MaxFailures
          /\ failures' = IF r.threw THEN failures + 1 ELSE failures
    /\ UNCHANGED <<buffer, declared>>

\* p = new P: the buffer has P.size bytes
NestedNewP ==
    /\ LET r == StructTypeNew(schema, NoBuffer)
       IN /\ schema' = r.s
          /\ buffer' = r.store
          /\ call' = [op |-> "new", threw |-> r.threw, fresh |-> FALSE]
    /\ UNCHANGED <<declared, failures>>

\* new C
NestedNewC ==
    /\ LET r == StructTypeNew(NestedC, NoBuffer)
       IN /\ schema' = WithC(schema, r.s)
          /\ call' = [op |-> "new C", threw |-> r.threw, fresh |-> FALSE]
    /\ UNCHANGED <<buffer, declared, failures>>

\* p.c: ref.get(buffer, offset, C) is C.get, new C(buffer.slice(offset)),
\* which throws when the slice has fewer than C.size bytes
NestedGetC ==
    /\ schema.instanceCreated
    /\ LET field == schema.fields[FieldIndex(schema, "c")]
           view == structGet(field.type, buffer, field.offset)
       IN /\ schema' = WithC(schema, view.s)
          /\ call' = [op |-> "get", threw |-> view.threw, fresh |-> FALSE]
    /\ UNCHANGED <<buffer, declared, failures>>

NextNested ==
    \/ \E name \in Names, type \in NestedInputs : NestedDefineP(name, type)
    \/ \E name \in {"x", "y"}, type \in NestedInputs : NestedDefineC(name, type)
    \/ NestedNewP
    \/ NestedNewC
    \/ NestedGetC

SpecNested == InitNested /\ [][NextNested]_vars

\* C13. Containment under nested-schema mutation: whatever is done to P
\* and to C, field c lies within P: offset + C.size <= P.size.
NestedContainment ==
    schema.fields[FieldIndex(schema, "c")].offset + NestedC.size <= schema.size

\* C13 for instances: p.c never fails for lack of bytes behind c's offset.
NestedGetSucceeds == call.op = "get" => ~call.threw

====
